---- MODULE Spec2Model ----
(***************************************************************************)
(* A model of the go-linq query pipeline (src/linq.go).                    *)
(*                                                                         *)
(* A queryable holds a slice (values), a fault (err) and a comparator      *)
(* (less).  Slices are windows into backing arrays, so the model keeps a   *)
(* small heap of arrays: cell 1 is the array of the caller's input, the    *)
(* other cells are arrays the operations allocate.  Every operation of     *)
(* the library is an operator from (heap, queryable, arguments) to its     *)
(* outcome: the heap after the call, the returned queryable or scalar,     *)
(* the fault, and the invocations of the caller's callables it made.       *)
(***************************************************************************)
EXTENDS Integers, Sequences, FiniteSets

VARIABLES
    heap,   \* backing arrays: cell -> sequence of elements
    src,    \* the queryable the last operation was invoked on
    q,      \* the queryable at the head of the chain
    last,   \* the last call: operation, arguments, outcome
    depth   \* number of calls the caller has made on its queryables

vars == <<heap, src, q, last, depth>>

----------------------------------------------------------------------------
(* Bounds of the model. *)

MaxLen == 3        \* longest input sequence
MaxIn == 2         \* longest companion sequence (Union, Intersect, Except, Join, GroupJoin)

(* Element values the caller puts in sequences. *)
Vals == {1, 2, 3}

(* The machine integer: Go's int at its 32-bit width (GOARCH=386, arm),     *)
(* the widest that TLC's integers reach; on 64-bit targets the same        *)
(* arithmetic wraps at 2^63 - 1.                                            *)
IntMax == 2147483647
IntMin == (-IntMax) - 1

(* i + 1 in machine arithmetic (two's complement wrap-around). *)
AddOne(i) == IF i = IntMax THEN IntMin ELSE i + 1

----------------------------------------------------------------------------
(* Faults: src/linq.go:18-26, plus the fault a caller's callable returns. *)

NoErr            == "nil"
ErrNilFunc       == "ErrNilFunc"
ErrNilInput      == "ErrNilInput"
ErrNoElement     == "ErrNoElement"
ErrEmptySequence == "ErrEmptySequence"
ErrNegativeParam == "ErrNegativeParam"
ErrNan           == "ErrNan"
ErrTypeMismatch  == "ErrTypeMismatch"
ErrUser          == "ErrUser"

----------------------------------------------------------------------------
(* Slices and arrays. *)

Cells == 1 .. 3

NilSlice == [arr |-> 0, off |-> 0, len |-> 0]

(* The elements a slice shows. *)
Payload(h, s) == IF s.arr = 0 THEN <<>> ELSE SubSeq(h[s.arr], s.off + 1, s.off + s.len)

(* A cell no live queryable refers to while an operation runs on qq. *)
FreeCell(qq) == CHOOSE c \in Cells : c # 1 /\ c # qq.values.arr

(* make([]interface{}, n) filled with s, or append(nil, ...) grown to s. *)
Alloc(h, qq, s) ==
    [h |-> [h EXCEPT ![FreeCell(qq)] = s],
     s |-> [arr |-> FreeCell(qq), off |-> 0, len |-> Len(s)]]

(* The zero queryable a named result starts as. *)
ZeroQ == [values |-> NilSlice, err |-> NoErr, less |-> "nil"]

NoCalls == [f |-> 0, outer |-> 0, inner |-> <<>>, result |-> <<>>]

(* Outcome of a stage-producing operation. *)
Out(h, r, calls) == [h |-> h, r |-> r, calls |-> calls]

Faulted(h, e) == Out(h, [ZeroQ EXCEPT !.err = e], NoCalls)

(* r.values = append(r.values, ...) starting from the nil slice: nothing   *)
(* appended leaves it nil.                                                 *)
Appended(h, qq, s) ==
    IF s = <<>> THEN [h |-> h, s |-> NilSlice] ELSE Alloc(h, qq, s)

----------------------------------------------------------------------------
(* The caller's callables, by name; "nil" is the absent callable. *)

\* func(interface{}) (bool, error)
Preds == {"nil", "isOdd", "true", "failAt2"}
ApplyPred(f, v) ==
    CASE f = "isOdd"   -> [ok |-> v % 2 = 1, err |-> NoErr]
      [] f = "true"    -> [ok |-> TRUE, err |-> NoErr]
      [] f = "failAt2" -> [ok |-> v # 2, err |-> IF v = 2 THEN ErrUser ELSE NoErr]

\* func(interface{}) (interface{}, error)
Mappers == {"nil", "id", "succ", "failAt2"}
ApplyMap(f, v) ==
    CASE f = "id"      -> [val |-> v, err |-> NoErr]
      [] f = "succ"    -> [val |-> (v % 3) + 1, err |-> NoErr]
      [] f = "failAt2" -> [val |-> v, err |-> IF v = 2 THEN ErrUser ELSE NoErr]

----------------------------------------------------------------------------
(* From: src/linq.go:28-36.  The input is [isnil, vals]. *)

From(input) ==
    [values |-> IF input.isnil THEN NilSlice
                ELSE [arr |-> 1, off |-> 0, len |-> Len(input.vals)],
     err    |-> IF input.isnil THEN ErrNilInput ELSE NoErr,
     less   |-> "nil"]

(* Range: src/linq.go:740-750; the elements fill a new array. *)
Range(start, count) ==
    [values |-> IF count < 0 THEN NilSlice ELSE [arr |-> 1, off |-> 0, len |-> count],
     err    |-> IF count < 0 THEN ErrNegativeParam ELSE NoErr,
     less   |-> "nil"]

RangeArray(start, count) ==
    IF count < 0 THEN <<>> ELSE [i \in 1 .. count |-> start + (i - 1)]

(* Where: src/linq.go:42-63. *)
RECURSIVE WhereLoop(_, _, _, _)
WhereLoop(vals, f, k, acc) ==
    IF k > Len(vals) THEN [acc |-> acc, err |-> NoErr, n |-> k - 1]
    ELSE LET a == ApplyPred(f, vals[k]) IN
         IF a.err # NoErr THEN [acc |-> acc, err |-> a.err, n |-> k]
         ELSE WhereLoop(vals, f, k + 1, IF a.ok THEN Append(acc, vals[k]) ELSE acc)

Where(h, qq, f) ==
    IF qq.err # NoErr THEN Faulted(h, qq.err)
    ELSE IF f = "nil" THEN Faulted(h, ErrNilFunc)
    ELSE LET l == WhereLoop(Payload(h, qq.values), f, 1, <<>>)
             a == Appended(h, qq, l.acc)
         IN  Out(a.h, [ZeroQ EXCEPT !.values = a.s, !.err = l.err],
                 [NoCalls EXCEPT !.f = l.n])

(* Select: src/linq.go:65-84. *)
RECURSIVE SelectLoop(_, _, _, _)
SelectLoop(vals, f, k, acc) ==
    IF k > Len(vals) THEN [acc |-> acc, err |-> NoErr, n |-> k - 1]
    ELSE LET a == ApplyMap(f, vals[k]) IN
         IF a.err # NoErr THEN [acc |-> acc, err |-> a.err, n |-> k]
         ELSE SelectLoop(vals, f, k + 1, Append(acc, a.val))

Select(h, qq, f) ==
    IF qq.err # NoErr THEN Faulted(h, qq.err)
    ELSE IF f = "nil" THEN Faulted(h, ErrNilFunc)
    ELSE LET l == SelectLoop(Payload(h, qq.values), f, 1, <<>>)
             a == Appended(h, qq, l.acc)
         IN  Out(a.h, [ZeroQ EXCEPT !.values = a.s, !.err = l.err],
                 [NoCalls EXCEPT !.f = l.n])

----------------------------------------------------------------------------
(* Go map iteration: the keys of a map come out in an arbitrary order. *)
RECURSIVE Perms(_)
Perms(S) ==
    IF S = {} THEN {<<>>}
    ELSE UNION {{<<x>> \o p : p \in Perms(S \ {x})} : x \in S}

(* The key set a loop "if _, ok := set[v]; !ok { set[v] = true }" builds. *)
RECURSIVE KeySet(_, _, _)
KeySet(vals, k, set) ==
    IF k > Len(vals) THEN set
    ELSE KeySet(vals, k + 1, IF vals[k] \in set THEN set ELSE set \cup {vals[k]})

(* res := make([]interface{}, len(set)); for key := range set { ... } *)
Ranged(h, qq, set) ==
    {Out(Alloc(h, qq, e).h, [ZeroQ EXCEPT !.values = Alloc(h, qq, e).s], NoCalls) :
        e \in Perms(set)}

\* func(interface{}, interface{}) (bool, error)
Equivs == {"nil", "eq", "sameParity", "less", "failOn3"}
ApplyEquiv(f, a, b) ==
    CASE f = "eq"         -> [ok |-> a = b, err |-> NoErr]
      [] f = "sameParity" -> [ok |-> a % 2 = b % 2, err |-> NoErr]
      [] f = "less"       -> [ok |-> a < b, err |-> NoErr]
      [] f = "failOn3"    -> [ok |-> a = b, err |-> IF b = 3 THEN ErrUser ELSE NoErr]

(* distinct, predicate branch: src/linq.go:125-144.  excl is the source's  *)
(* included[] flag array (true = leave the element out).                   *)
RECURSIVE DistinctInner(_, _, _, _, _, _)
DistinctInner(vals, f, i, j, excl, n) ==
    IF j > Len(vals) THEN [excl |-> excl, err |-> NoErr, n |-> n]
    ELSE LET a == ApplyEquiv(f, vals[i], vals[j]) IN
         IF a.err # NoErr THEN [excl |-> excl, err |-> a.err, n |-> n + 1]
         ELSE DistinctInner(vals, f, i, j + 1,
                            IF a.ok THEN [excl EXCEPT ![j] = TRUE] ELSE excl, n + 1)

(* Variant of DistinctOuter: the "if included[i] { continue }" is left out. *)
RECURSIVE DistinctOuterNoSkip(_, _, _, _, _, _)
DistinctOuterNoSkip(vals, f, i, excl, results, n) ==
    IF i > Len(vals) THEN [results |-> results, err |-> NoErr, n |-> n]
    ELSE LET in == DistinctInner(vals, f, i, i + 1, excl, n) IN
         IF in.err # NoErr THEN [results |-> results, err |-> in.err, n |-> in.n]
         ELSE DistinctOuterNoSkip(vals, f, i + 1, in.excl, Append(results, vals[i]), in.n)

RECURSIVE DistinctOuter(_, _, _, _, _, _)
DistinctOuter(vals, f, i, excl, results, n) ==
    IF i > Len(vals) THEN [results |-> results, err |-> NoErr, n |-> n]
    ELSE IF excl[i] THEN DistinctOuter(vals, f, i + 1, excl, results, n)
    ELSE LET in == DistinctInner(vals, f, i, i + 1, excl, n) IN
         IF in.err # NoErr THEN [results |-> results, err |-> in.err, n |-> in.n]
         ELSE DistinctOuter(vals, f, i + 1, in.excl, Append(results, vals[i]), in.n)

(* distinct: src/linq.go:98-147.  A set of outcomes: one per iteration     *)
(* order of the dict.                                                      *)
distinct(h, qq, f) ==
    IF qq.err # NoErr THEN {Faulted(h, qq.err)}
    ELSE IF f = "nil" THEN Ranged(h, qq, KeySet(Payload(h, qq.values), 1, {}))
    ELSE LET vals == Payload(h, qq.values)
             l == DistinctOuter(vals, f, 1, [k \in 1 .. Len(vals) |-> FALSE], <<>>, 0)
             a == Alloc(h, qq, l.results)
         IN  IF l.err # NoErr
             THEN {Out(h, [ZeroQ EXCEPT !.err = l.err], [NoCalls EXCEPT !.f = l.n])}
             ELSE {Out(a.h, [ZeroQ EXCEPT !.values = a.s], [NoCalls EXCEPT !.f = l.n])}

(* Distinct: src/linq.go:86-88. *)
Distinct(h, qq) == distinct(h, qq, "nil")

(* DistinctBy: src/linq.go:90-96. *)
DistinctBy(h, qq, f) ==
    IF f = "nil" THEN {Faulted(h, ErrNilFunc)} ELSE distinct(h, qq, f)

(* Union: src/linq.go:149-177. *)
Union(h, qq, in) ==
    IF qq.err # NoErr THEN {Faulted(h, qq.err)}
    ELSE IF in.isnil THEN {Faulted(h, ErrNilInput)}
    ELSE Ranged(h, qq, KeySet(in.vals, 1, KeySet(Payload(h, qq.values), 1, {})))

(* Variant of IntersectLoop: the test "if _, ok := set[v]; ok" is left out. *)
RECURSIVE IntersectLoopUntested(_, _, _, _)
IntersectLoopUntested(in, k, set, intersection) ==
    IF k > Len(in) THEN intersection
    ELSE IntersectLoopUntested(in, k + 1, set \ {in[k]}, intersection \cup {in[k]})

(* Intersect, second loop: src/linq.go:196-203. *)
RECURSIVE IntersectLoop(_, _, _, _)
IntersectLoop(in, k, set, intersection) ==
    IF k > Len(in) THEN intersection
    ELSE IF in[k] \in set
         THEN IntersectLoop(in, k + 1, set \ {in[k]},
                            IF in[k] \in intersection THEN intersection
                            ELSE intersection \cup {in[k]})
         ELSE IntersectLoop(in, k + 1, set, intersection)

(* Intersect: src/linq.go:179-211. *)
Intersect(h, qq, in) ==
    IF qq.err # NoErr THEN {Faulted(h, qq.err)}
    ELSE IF in.isnil THEN {Faulted(h, ErrNilInput)}
    ELSE Ranged(h, qq, IntersectLoop(in.vals, 1, KeySet(Payload(h, qq.values), 1, {}), {}))

(* Except, second loop: src/linq.go:229-231. *)
RECURSIVE ExceptLoop(_, _, _)
ExceptLoop(in, k, set) ==
    IF k > Len(in) THEN set ELSE ExceptLoop(in, k + 1, set \ {in[k]})

(* Except: src/linq.go:213-239. *)
Except(h, qq, in) ==
    IF qq.err # NoErr THEN {Faulted(h, qq.err)}
    ELSE IF in.isnil THEN {Faulted(h, ErrNilInput)}
    ELSE Ranged(h, qq, ExceptLoop(in.vals, 1, KeySet(Payload(h, qq.values), 1, {})))

----------------------------------------------------------------------------
(* Reverse: src/linq.go:501-514. *)
Reverse(h, qq) ==
    IF qq.err # NoErr THEN Faulted(h, qq.err)
    ELSE LET vals == Payload(h, qq.values)
             c == Len(vals)
             a == Alloc(h, qq, [j \in 1 .. c |-> vals[c - j + 1]])
         IN  Out(a.h, [ZeroQ EXCEPT !.values = a.s], NoCalls)

(* s[:n] and s[n:] ; slicing the nil slice at 0 gives the nil slice. *)
SliceTo(s, n) == IF s.arr = 0 THEN NilSlice ELSE [s EXCEPT !.len = n]
SliceFrom(s, n) == IF s.arr = 0 THEN NilSlice ELSE [s EXCEPT !.off = s.off + n, !.len = s.len - n]

(* The clamping of n that Take and Skip share: src/linq.go:521-526, 545-550. *)
Clamp(n, len) == LET m == IF n < 0 THEN 0 ELSE n IN IF m >= len THEN len ELSE m

(* Take: src/linq.go:516-529. *)
Take(h, qq, n) ==
    IF qq.err # NoErr THEN Faulted(h, qq.err)
    ELSE Out(h, [ZeroQ EXCEPT !.values = SliceTo(qq.values, Clamp(n, qq.values.len))], NoCalls)

(* Variant of Skip: the slice expression of Take, q.values[:n]. *)
SkipAsTake(h, qq, n) ==
    IF qq.err # NoErr THEN Faulted(h, qq.err)
    ELSE Out(h, [ZeroQ EXCEPT !.values = SliceTo(qq.values, Clamp(n, qq.values.len))], NoCalls)

(* Skip: src/linq.go:540-553. *)
Skip(h, qq, n) ==
    IF qq.err # NoErr THEN Faulted(h, qq.err)
    ELSE Out(h, [ZeroQ EXCEPT !.values = SliceFrom(qq.values, Clamp(n, qq.values.len))], NoCalls)

(* findWhileTerminationIndex: src/linq.go:564-587. *)
RECURSIVE WhileLoop(_, _, _, _)
WhileLoop(vals, f, k, n) ==
    IF k > Len(vals) THEN [n |-> n, err |-> NoErr, calls |-> k - 1]
    ELSE LET a == ApplyPred(f, vals[k]) IN
         IF a.err # NoErr THEN [n |-> n, err |-> a.err, calls |-> k]
         ELSE IF a.ok THEN WhileLoop(vals, f, k + 1, n + 1)
         ELSE [n |-> n, err |-> NoErr, calls |-> k]

findWhileTerminationIndex(h, qq, f) ==
    IF qq.err # NoErr THEN [n |-> 0, err |-> qq.err, calls |-> 0]
    ELSE IF f = "nil" THEN [n |-> 0, err |-> ErrNilFunc, calls |-> 0]
    ELSE WhileLoop(Payload(h, qq.values), f, 1, 0)

(* TakeWhile: src/linq.go:531-538. *)
TakeWhile(h, qq, f) ==
    LET t == findWhileTerminationIndex(h, qq, f) IN
    IF t.err # NoErr THEN Out(h, [ZeroQ EXCEPT !.err = t.err], [NoCalls EXCEPT !.f = t.calls])
    ELSE [Take(h, qq, t.n) EXCEPT !.calls.f = t.calls]

(* SkipWhile: src/linq.go:555-562. *)
SkipWhile(h, qq, f) ==
    LET t == findWhileTerminationIndex(h, qq, f) IN
    IF t.err # NoErr THEN Out(h, [ZeroQ EXCEPT !.err = t.err], [NoCalls EXCEPT !.f = t.calls])
    ELSE [Skip(h, qq, t.n) EXCEPT !.calls.f = t.calls]

----------------------------------------------------------------------------
\* func(this, that interface{}) bool
Lesses == {"nil", "asc", "desc"}
ApplyLess(f, a, b) == IF f = "asc" THEN a < b ELSE a > b

(* sort.Sort on a short slice is an insertion sort through Len, Less and   *)
(* Swap (src/linq.go:14-16): for i := 1; i < n; i++                        *)
(*   { for j := i; j > 0 && Less(j, j-1); j-- { Swap(j, j-1) } }           *)
(* s[i], s[j] = s[j], s[i] *)
Swapped(s, i, j) == [s EXCEPT ![i] = s[j], ![j] = s[i]]

RECURSIVE Sift(_, _, _, _)
Sift(s, less, j, n) ==
    IF j > 1 /\ ApplyLess(less, s[j], s[j - 1])
    THEN Sift(Swapped(s, j, j - 1), less, j - 1, n + 1)
    ELSE [s |-> s, n |-> n + (IF j > 1 THEN 1 ELSE 0)]

RECURSIVE InsertionSort(_, _, _, _)
InsertionSort(s, less, i, n) ==
    IF i > Len(s) THEN [s |-> s, n |-> n]
    ELSE LET t == Sift(s, less, i, n) IN InsertionSort(t.s, less, i + 1, t.n)

(* sort.Sort(r): the elements r.values shows are permuted in r's array. *)
Sort(h, s, less) ==
    IF s.arr = 0 THEN [h |-> h, n |-> 0]
    ELSE LET a == h[s.arr]
             t == InsertionSort(SubSeq(a, s.off + 1, s.off + s.len), less, 2, 0)
         IN  [h |-> [h EXCEPT ![s.arr] =
                        SubSeq(a, 1, s.off) \o t.s \o SubSeq(a, s.off + s.len + 1, Len(a))],
              n |-> t.n]

(* OrderBy: src/linq.go:636-650. *)
OrderBy(h, qq, less) ==
    IF qq.err # NoErr THEN Faulted(h, qq.err)
    ELSE IF less = "nil" THEN Faulted(h, ErrNilFunc)
    ELSE LET a == Alloc(h, qq, Payload(h, qq.values))
             t == Sort(a.h, a.s, less)
         IN  Out(t.h, [values |-> a.s, err |-> NoErr, less |-> less],
                 [NoCalls EXCEPT !.f = t.n])

(* The conversions the typed sorts and the Min/Max accessors go through     *)
(* are not in linq.go: every element of the model is an int, so toInts      *)
(* and minMaxInts succeed, and the conversions to another type report       *)
(* ErrTypeMismatch at the first element.                                    *)
toInts(vals) == [vals |-> vals, err |-> NoErr]
toOther(vals) == [vals |-> <<>>, err |-> IF vals = <<>> THEN NoErr ELSE ErrTypeMismatch]

minMaxInts(vals) ==
    [min |-> CHOOSE i \in 1 .. Len(vals) :
                 /\ \A j \in 1 .. Len(vals) : vals[i] <= vals[j]
                 /\ \A j \in 1 .. (i - 1) : vals[j] # vals[i],
     max |-> CHOOSE i \in 1 .. Len(vals) :
                 /\ \A j \in 1 .. Len(vals) : vals[i] >= vals[j]
                 /\ \A j \in 1 .. (i - 1) : vals[j] # vals[i],
     err |-> NoErr]
minMaxOther(vals) == [min |-> 1, max |-> 1, err |-> ErrTypeMismatch]

(* sort.Ints, sort.Strings, sort.Float64s: ascending. *)
Ascending(vals) == InsertionSort(vals, "asc", 2, 0).s

(* The shape OrderInts, OrderStrings and OrderFloat64s share. *)
OrderTyped(h, qq, conv) ==
    IF qq.err # NoErr THEN Faulted(h, qq.err)
    ELSE IF conv.err # NoErr THEN Faulted(h, conv.err)
    ELSE LET a == Alloc(h, qq, Ascending(conv.vals))
         IN  Out(a.h, [ZeroQ EXCEPT !.values = a.s], NoCalls)

(* OrderInts: src/linq.go:589-604. *)
OrderInts(h, qq) == OrderTyped(h, qq, toInts(Payload(h, qq.values)))

(* OrderStrings: src/linq.go:606-619. *)
OrderStrings(h, qq) == OrderTyped(h, qq, toOther(Payload(h, qq.values)))

(* OrderFloat64s: src/linq.go:621-634. *)
OrderFloat64s(h, qq) == OrderTyped(h, qq, toOther(Payload(h, qq.values)))

----------------------------------------------------------------------------
\* key selectors: func(interface{}) interface{}
KeySels == {"nil", "id", "parity"}
ApplyKey(f, v) == IF f = "id" THEN v ELSE v % 2

\* Join's resultSelector: func(outer, inner interface{}) interface{}
ApplyPair(f, o, i) == o * 10 + i

\* GroupJoin's resultSelector: func(outer interface{}, inners []interface{}) interface{}
ApplyGroup(f, o, inners) == o * 10 + Len(inners)

(* Variant of Memo: the computed key is not stored. *)
MemoForget(lookup, inner, key) == lookup

(* The memo table innerKeyLookup: a function from inner elements to keys. *)
Memo(lookup, inner, key) ==
    [v \in DOMAIN lookup \cup {inner} |-> IF v = inner THEN key ELSE lookup[v]]

(* Join, inner loop: src/linq.go:675-685.  st = [lookup, values, calls]. *)
RECURSIVE JoinInner(_, _, _, _, _, _, _)
JoinInner(outer, outerKey, in, k, iks, rs, st) ==
    IF k > Len(in) THEN st
    ELSE LET inner == in[k]
             ok == inner \in DOMAIN st.lookup
             innerKey == IF ok THEN st.lookup[inner] ELSE ApplyKey(iks, inner)
             st1 == IF ok THEN st
                    ELSE [st EXCEPT !.lookup = Memo(st.lookup, inner, innerKey),
                                    !.calls.inner = Append(@, inner)]
             st2 == IF innerKey = outerKey
                    THEN [st1 EXCEPT !.values = Append(@, ApplyPair(rs, outer, inner)),
                                     !.calls.result = Append(@, <<outer, inner>>)]
                    ELSE st1
         IN  JoinInner(outer, outerKey, in, k + 1, iks, rs, st2)

(* Variant of JoinOuter: the inner loop ends at the first match (a break   *)
(* after the append).                                                     *)
RECURSIVE JoinInnerFirst(_, _, _, _, _, _, _)
JoinInnerFirst(outer, outerKey, in, k, iks, rs, st) ==
    IF k > Len(in) THEN st
    ELSE LET inner == in[k]
             ok == inner \in DOMAIN st.lookup
             innerKey == IF ok THEN st.lookup[inner] ELSE ApplyKey(iks, inner)
             st1 == IF ok THEN st
                    ELSE [st EXCEPT !.lookup = Memo(st.lookup, inner, innerKey),
                                    !.calls.inner = Append(@, inner)]
         IN  IF innerKey = outerKey
             THEN [st1 EXCEPT !.values = Append(@, ApplyPair(rs, outer, inner)),
                              !.calls.result = Append(@, <<outer, inner>>)]
             ELSE JoinInnerFirst(outer, outerKey, in, k + 1, iks, rs, st1)

RECURSIVE JoinOuterFirst(_, _, _, _, _, _, _)
JoinOuterFirst(outerCollection, k, in, oks, iks, rs, st) ==
    IF k > Len(outerCollection) THEN st
    ELSE LET outer == outerCollection[k]
             outerKey == ApplyKey(oks, outer)
         IN  JoinOuterFirst(outerCollection, k + 1, in, oks, iks, rs,
                            JoinInnerFirst(outer, outerKey, in, 1, iks, rs,
                                           [st EXCEPT !.calls.outer = @ + 1]))

(* Join, outer loop: src/linq.go:673-686. *)
RECURSIVE JoinOuter(_, _, _, _, _, _, _)
JoinOuter(outerCollection, k, in, oks, iks, rs, st) ==
    IF k > Len(outerCollection) THEN st
    ELSE LET outer == outerCollection[k]
             outerKey == ApplyKey(oks, outer)
         IN  JoinOuter(outerCollection, k + 1, in, oks, iks, rs,
                       JoinInner(outer, outerKey, in, 1, iks, rs,
                                 [st EXCEPT !.calls.outer = @ + 1]))

EmptyMap == [v \in {} |-> 0]

(* Join: src/linq.go:652-688. *)
Join(h, qq, in, oks, iks, rs) ==
    IF qq.err # NoErr THEN Faulted(h, qq.err)
    ELSE IF in.isnil THEN Faulted(h, ErrNilInput)
    ELSE IF oks = "nil" \/ iks = "nil" \/ rs = "nil" THEN Faulted(h, ErrNilFunc)
    ELSE LET st == JoinOuter(Payload(h, qq.values), 1, in.vals, oks, iks, rs,
                             [lookup |-> EmptyMap, values |-> <<>>, calls |-> NoCalls])
             a == Appended(h, qq, st.values)
         IN  Out(a.h, [ZeroQ EXCEPT !.values = a.s], st.calls)

(* GroupJoin, inner loop: src/linq.go:716-725.                              *)
(* st = [lookup, results, calls]; results maps outer elements to buckets.  *)
RECURSIVE GroupInner(_, _, _, _, _, _)
GroupInner(outer, outerKey, in, k, iks, st) ==
    IF k > Len(in) THEN st
    ELSE LET inner == in[k]
             ok == inner \in DOMAIN st.lookup
             innerKey == IF ok THEN st.lookup[inner] ELSE ApplyKey(iks, inner)
             st1 == IF ok THEN st
                    ELSE [st EXCEPT !.lookup = Memo(st.lookup, inner, innerKey),
                                    !.calls.inner = Append(@, inner)]
             st2 == IF innerKey = outerKey
                    THEN [st1 EXCEPT !.results[outer] = Append(@, inner)]
                    ELSE st1
         IN  GroupInner(outer, outerKey, in, k + 1, iks, st2)

(* Variant of GroupOuter: the bucket of an outer element seen before is     *)
(* kept instead of being replaced by an empty one.                         *)
RECURSIVE GroupOuterKeep(_, _, _, _, _, _)
GroupOuterKeep(outerCollection, k, in, oks, iks, st) ==
    IF k > Len(outerCollection) THEN st
    ELSE LET outer == outerCollection[k]
             outerKey == ApplyKey(oks, outer)
             st0 == [st EXCEPT !.calls.outer = @ + 1,
                               !.results = [v \in DOMAIN st.results \cup {outer} |->
                                               IF v \in DOMAIN st.results THEN st.results[v]
                                               ELSE <<>>]]
         IN  GroupOuterKeep(outerCollection, k + 1, in, oks, iks,
                            GroupInner(outer, outerKey, in, 1, iks, st0))

(* GroupJoin, outer loop: src/linq.go:712-726. *)
RECURSIVE GroupOuter(_, _, _, _, _, _)
GroupOuter(outerCollection, k, in, oks, iks, st) ==
    IF k > Len(outerCollection) THEN st
    ELSE LET outer == outerCollection[k]
             outerKey == ApplyKey(oks, outer)
             bucket == <<>>
             st0 == [st EXCEPT !.calls.outer = @ + 1,
                               !.results = [v \in DOMAIN st.results \cup {outer} |->
                                               IF v = outer THEN bucket ELSE st.results[v]]]
         IN  GroupOuter(outerCollection, k + 1, in, oks, iks,
                        GroupInner(outer, outerKey, in, 1, iks, st0))

(* GroupJoin: src/linq.go:690-737.  One outcome per iteration order of     *)
(* the results map.                                                        *)
GroupJoin(h, qq, in, oks, iks, rs) ==
    IF qq.err # NoErr THEN {Faulted(h, qq.err)}
    ELSE IF in.isnil THEN {Faulted(h, ErrNilInput)}
    ELSE IF oks = "nil" \/ iks = "nil" \/ rs = "nil" THEN {Faulted(h, ErrNilFunc)}
    ELSE LET st == GroupOuter(Payload(h, qq.values), 1, in.vals, oks, iks,
                              [lookup |-> EmptyMap, results |-> EmptyMap, calls |-> NoCalls])
         IN  {LET vals == [i \in 1 .. Len(e) |-> ApplyGroup(rs, e[i], st.results[e[i]])]
                  a == Alloc(h, qq, vals)
              IN  Out(a.h, [ZeroQ EXCEPT !.values = a.s],
                      [st.calls EXCEPT !.result =
                          [i \in 1 .. Len(e) |-> <<e[i], st.results[e[i]]>>]]) :
              e \in Perms(DOMAIN st.results)}

----------------------------------------------------------------------------
(* Terminal operations.  Their outcome: val (a number or an element), has  *)
(* (the element is not nil), ok (a boolean result), out (a sequence), den  *)
(* (the divisor of a quotient), err, the callable invocations, and         *)
(* panicked: the call ended in a run-time panic instead of returning.      *)

Term == [val |-> 0, has |-> FALSE, ok |-> FALSE, out |-> <<>>, den |-> 1,
         err |-> NoErr, calls |-> NoCalls, panicked |-> FALSE]

TermErr(e) == [Term EXCEPT !.err = e]

Elem(v) == [Term EXCEPT !.val = v, !.has = TRUE]

(* Results: src/linq.go:38-40. *)
Results(h, qq) == [Term EXCEPT !.out = Payload(h, qq.values), !.err = qq.err]

(* The methods of sort.Interface, public like every other method of a     *)
(* queryable: src/linq.go:14-16.  They return no fault and test none.      *)
Panic == [Term EXCEPT !.panicked = TRUE]

(* q.values[i] is an element: 0 <= i < len(q.values). *)
InRange(qq, i) == 0 <= i /\ i < qq.values.len

(* Len: src/linq.go:14. *)
Len_(h, qq) == [Term EXCEPT !.val = qq.values.len]

(* Swap: src/linq.go:15.  Both elements are read before either is         *)
(* assigned; the assignment is to the array q.values shows.               *)
Swap(h, qq, i, j) ==
    IF ~(InRange(qq, i) /\ InRange(qq, j)) THEN [h |-> h, t |-> Panic]
    ELSE LET s == qq.values
         IN  [h |-> [h EXCEPT ![s.arr] = Swapped(h[s.arr], s.off + i + 1, s.off + j + 1)],
              t |-> Term]

(* Less: src/linq.go:16.  The operands are indexed, then q.less is called: *)
(* a nil q.less (every queryable but the result of OrderBy) panics.        *)
Less(h, qq, i, j) ==
    IF ~(InRange(qq, i) /\ InRange(qq, j)) THEN Panic
    ELSE IF qq.less = "nil" THEN Panic
    ELSE LET v == Payload(h, qq.values)
         IN  [Term EXCEPT !.ok = ApplyLess(qq.less, v[i + 1], v[j + 1]), !.calls.f = 1]

(* Count: src/linq.go:241-243. *)
Count(h, qq) == [Term EXCEPT !.val = qq.values.len, !.err = qq.err]

(* CountBy: src/linq.go:245-266. *)
RECURSIVE CountLoop(_, _, _, _)
CountLoop(vals, f, k, c) ==
    IF k > Len(vals) THEN [Term EXCEPT !.val = c, !.calls.f = k - 1]
    ELSE LET a == ApplyPred(f, vals[k]) IN
         IF a.err # NoErr THEN [Term EXCEPT !.val = c, !.err = a.err, !.calls.f = k]
         ELSE CountLoop(vals, f, k + 1, IF a.ok THEN c + 1 ELSE c)

CountBy(h, qq, f) ==
    IF qq.err # NoErr THEN TermErr(qq.err)
    ELSE IF f = "nil" THEN TermErr(ErrNilFunc)
    ELSE CountLoop(Payload(h, qq.values), f, 1, 0)

(* Any: src/linq.go:268-270. *)
Any(h, qq) == [Term EXCEPT !.ok = qq.values.len > 0, !.err = qq.err]

(* AnyWith: src/linq.go:272-294. *)
RECURSIVE AnyLoop(_, _, _)
AnyLoop(vals, f, k) ==
    IF k > Len(vals) THEN [Term EXCEPT !.calls.f = k - 1]
    ELSE LET a == ApplyPred(f, vals[k]) IN
         IF a.err # NoErr THEN [Term EXCEPT !.err = a.err, !.calls.f = k]
         ELSE IF a.ok THEN [Term EXCEPT !.ok = TRUE, !.calls.f = k]
         ELSE AnyLoop(vals, f, k + 1)

AnyWith(h, qq, f) ==
    IF qq.err # NoErr THEN TermErr(qq.err)
    ELSE IF f = "nil" THEN TermErr(ErrNilFunc)
    ELSE AnyLoop(Payload(h, qq.values), f, 1)

(* All: src/linq.go:296-316. *)
RECURSIVE AllLoop(_, _, _, _)
AllLoop(vals, f, k, all) ==
    IF k > Len(vals) THEN [Term EXCEPT !.ok = all, !.calls.f = k - 1]
    ELSE LET a == ApplyPred(f, vals[k]) IN
         IF a.err # NoErr THEN [Term EXCEPT !.ok = all, !.err = a.err, !.calls.f = k]
         ELSE AllLoop(vals, f, k + 1, all /\ a.ok)

All(h, qq, f) ==
    IF qq.err # NoErr THEN TermErr(qq.err)
    ELSE IF f = "nil" THEN TermErr(ErrNilFunc)
    ELSE AllLoop(Payload(h, qq.values), f, 1, TRUE)

(* Single: src/linq.go:318-334. *)
Single(h, qq, f) ==
    IF qq.err # NoErr THEN TermErr(qq.err)
    ELSE IF f = "nil" THEN TermErr(ErrNilFunc)
    ELSE LET c == CountBy(h, qq, f) IN
         IF c.err # NoErr THEN [Term EXCEPT !.err = c.err, !.calls = c.calls]
         ELSE [Term EXCEPT !.ok = (c.val = 1), !.calls = c.calls]

(* q.values[i]: an index outside the slice is a run-time panic. *)
Index(vals, i) ==
    IF 0 <= i /\ i < Len(vals) THEN Elem(vals[i + 1]) ELSE [Term EXCEPT !.panicked = TRUE]

(* ElementAt: src/linq.go:336-351. *)
ElementAt(h, qq, i) ==
    IF qq.err # NoErr THEN TermErr(qq.err)
    ELSE IF i < 0 THEN TermErr(ErrNegativeParam)
    ELSE IF qq.values.len < AddOne(i) THEN TermErr(ErrNoElement)
    ELSE Index(Payload(h, qq.values), i)

(* ElementAtOrNil: src/linq.go:353-366. *)
ElementAtOrNil(h, qq, i) ==
    IF qq.err # NoErr THEN TermErr(qq.err)
    ELSE IF i < 0 THEN TermErr(ErrNegativeParam)
    ELSE IF qq.values.len > i THEN Index(Payload(h, qq.values), i)
    ELSE Term

(* First: src/linq.go:368-379. *)
First(h, qq) ==
    IF qq.err # NoErr THEN TermErr(qq.err)
    ELSE IF qq.values.len = 0 THEN TermErr(ErrNoElement)
    ELSE Index(Payload(h, qq.values), 0)

(* FirstOrNil: src/linq.go:381-390. *)
FirstOrNil(h, qq) ==
    IF qq.err # NoErr THEN TermErr(qq.err)
    ELSE IF qq.values.len > 0 THEN Index(Payload(h, qq.values), 0)
    ELSE Term

(* firstBy: src/linq.go:392-414; has is the source's found. *)
RECURSIVE FirstLoop(_, _, _)
FirstLoop(vals, f, k) ==
    IF k > Len(vals) THEN [Term EXCEPT !.calls.f = k - 1]
    ELSE LET a == ApplyPred(f, vals[k]) IN
         IF a.err # NoErr THEN [Term EXCEPT !.err = a.err, !.calls.f = k]
         ELSE IF a.ok THEN [Elem(vals[k]) EXCEPT !.calls.f = k]
         ELSE FirstLoop(vals, f, k + 1)

firstBy(h, qq, f) ==
    IF qq.err # NoErr THEN TermErr(qq.err)
    ELSE IF f = "nil" THEN TermErr(ErrNilFunc)
    ELSE FirstLoop(Payload(h, qq.values), f, 1)

(* FirstBy: src/linq.go:416-424. *)
FirstBy(h, qq, f) ==
    LET t == firstBy(h, qq, f) IN
    IF t.err = NoErr /\ ~t.has THEN [t EXCEPT !.err = ErrNoElement] ELSE t

(* FirstOrNilBy: src/linq.go:426-432. *)
FirstOrNilBy(h, qq, f) ==
    LET t == firstBy(h, qq, f) IN
    IF ~t.has THEN [t EXCEPT !.val = 0, !.has = FALSE] ELSE t

(* Last: src/linq.go:434-445. *)
Last(h, qq) ==
    IF qq.err # NoErr THEN TermErr(qq.err)
    ELSE IF qq.values.len = 0 THEN TermErr(ErrNoElement)
    ELSE Index(Payload(h, qq.values), qq.values.len - 1)

(* LastOrNil: src/linq.go:447-456. *)
LastOrNil(h, qq) ==
    IF qq.err # NoErr THEN TermErr(qq.err)
    ELSE IF qq.values.len > 0 THEN Index(Payload(h, qq.values), qq.values.len - 1)
    ELSE Term

(* lastBy: src/linq.go:458-481. *)
RECURSIVE LastLoop(_, _, _, _)
LastLoop(vals, f, i, n) ==
    IF i < 1 THEN [Term EXCEPT !.calls.f = n]
    ELSE LET a == ApplyPred(f, vals[i]) IN
         IF a.err # NoErr THEN [Term EXCEPT !.err = a.err, !.calls.f = n + 1]
         ELSE IF a.ok THEN [Elem(vals[i]) EXCEPT !.calls.f = n + 1]
         ELSE LastLoop(vals, f, i - 1, n + 1)

lastBy(h, qq, f) ==
    IF qq.err # NoErr THEN TermErr(qq.err)
    ELSE IF f = "nil" THEN TermErr(ErrNilFunc)
    ELSE LastLoop(Payload(h, qq.values), f, qq.values.len, 0)

(* LastBy: src/linq.go:483-491. *)
LastBy(h, qq, f) ==
    LET t == lastBy(h, qq, f) IN
    IF t.err = NoErr /\ ~t.has THEN [t EXCEPT !.err = ErrNoElement] ELSE t

(* LastOrNilBy: src/linq.go:493-499. *)
LastOrNilBy(h, qq, f) ==
    LET t == lastBy(h, qq, f) IN
    IF ~t.has THEN [t EXCEPT !.val = 0, !.has = FALSE] ELSE t

(* sum_: src/linq.go:762-800.  Every element of the model is an int, the   *)
(* first type the chain of assertions tries.                               *)
RECURSIVE sum_(_, _, _)
sum_(in, i, sum) ==
    IF i > Len(in) THEN [Term EXCEPT !.val = sum]
    ELSE IF in[i] \in Int THEN sum_(in, i + 1, sum + in[i])
    ELSE [Term EXCEPT !.val = sum, !.err = ErrNan]

(* Sum: src/linq.go:753-760. *)
Sum(h, qq) ==
    IF qq.err # NoErr THEN TermErr(qq.err)
    ELSE sum_(Payload(h, qq.values), 1, 0)

(* Average: src/linq.go:803-817; the quotient is val / den. *)
Average(h, qq) ==
    IF qq.err # NoErr THEN TermErr(qq.err)
    ELSE IF qq.values.len = 0 THEN TermErr(ErrEmptySequence)
    ELSE LET s == sum_(Payload(h, qq.values), 1, 0) IN
         IF s.err # NoErr THEN [Term EXCEPT !.err = s.err]
         ELSE [Term EXCEPT !.val = s.val, !.den = qq.values.len]

(* MinInt: src/linq.go:819-832. *)
MinInt(h, qq) ==
    IF qq.err # NoErr THEN TermErr(qq.err)
    ELSE IF qq.values.len = 0 THEN TermErr(ErrEmptySequence)
    ELSE LET mm == minMaxInts(Payload(h, qq.values)) IN
         IF mm.err # NoErr THEN TermErr(mm.err)
         ELSE Index(Payload(h, qq.values), mm.min - 1)

(* MinUint: src/linq.go:834-847. *)
MinUint(h, qq) ==
    IF qq.err # NoErr THEN TermErr(qq.err)
    ELSE IF qq.values.len = 0 THEN TermErr(ErrEmptySequence)
    ELSE LET mm == minMaxOther(Payload(h, qq.values)) IN
         IF mm.err # NoErr THEN TermErr(mm.err)
         ELSE Index(Payload(h, qq.values), mm.min - 1)

(* MinFloat64: src/linq.go:849-862. *)
MinFloat64(h, qq) ==
    IF qq.err # NoErr THEN TermErr(qq.err)
    ELSE IF qq.values.len = 0 THEN TermErr(ErrEmptySequence)
    ELSE LET mm == minMaxOther(Payload(h, qq.values)) IN
         IF mm.err # NoErr THEN TermErr(mm.err)
         ELSE Index(Payload(h, qq.values), mm.min - 1)

(* MaxInt: src/linq.go:864-877. *)
MaxInt(h, qq) ==
    IF qq.err # NoErr THEN TermErr(qq.err)
    ELSE IF qq.values.len = 0 THEN TermErr(ErrEmptySequence)
    ELSE LET mm == minMaxInts(Payload(h, qq.values)) IN
         IF mm.err # NoErr THEN TermErr(mm.err)
         ELSE Index(Payload(h, qq.values), mm.max - 1)

(* MaxUint: src/linq.go:879-892. *)
MaxUint(h, qq) ==
    IF qq.err # NoErr THEN TermErr(qq.err)
    ELSE IF qq.values.len = 0 THEN TermErr(ErrEmptySequence)
    ELSE LET mm == minMaxOther(Payload(h, qq.values)) IN
         IF mm.err # NoErr THEN TermErr(mm.err)
         ELSE Index(Payload(h, qq.values), mm.max - 1)

(* MaxFloat64: src/linq.go:894-907. *)
MaxFloat64(h, qq) ==
    IF qq.err # NoErr THEN TermErr(qq.err)
    ELSE IF qq.values.len = 0 THEN TermErr(ErrEmptySequence)
    ELSE LET mm == minMaxOther(Payload(h, qq.values)) IN
         IF mm.err # NoErr THEN TermErr(mm.err)
         ELSE Index(Payload(h, qq.values), mm.max - 1)

----------------------------------------------------------------------------
(* The state machine: a caller builds a queryable with From, chains        *)
(* stage-producing operations on it and resolves it with terminal ones.    *)

RECURSIVE SeqsUpTo(_)
SeqsUpTo(n) ==
    IF n = 0 THEN {<<>>}
    ELSE LET S == SeqsUpTo(n - 1) IN
         S \cup {Append(s, v) : s \in {t \in S : Len(t) = n - 1}, v \in Vals}

NilInput == [isnil |-> TRUE, vals |-> <<>>]
Inputs == {NilInput} \cup {[isnil |-> FALSE, vals |-> s] : s \in SeqsUpTo(MaxLen)}
Companions == {NilInput} \cup {[isnil |-> FALSE, vals |-> s] : s \in SeqsUpTo(MaxIn)}

(* The integer arguments tried: around the payload's ends, and the ends of *)
(* the machine integer.                                                    *)
Counts == (-1) .. (MaxLen + 1)
Indexes == Counts \cup {IntMin, IntMax - 1, IntMax}
Positions == (-1) .. MaxLen

(* outerKeySelector, innerKeySelector, resultSelector *)
JoinSels == {<<"id", "id", "pair">>, <<"parity", "parity", "pair">>,
             <<"id", "parity", "pair">>, <<"parity", "id", "pair">>,
             <<"nil", "id", "pair">>, <<"id", "nil", "pair">>, <<"id", "id", "nil">>}

NoArgs == [fn |-> "nil", n |-> 0, m |-> 0, in |-> NilInput, keys |-> <<>>]
Fn(f) == [NoArgs EXCEPT !.fn = f]
Num(n) == [NoArgs EXCEPT !.n = n]
Comp(in) == [NoArgs EXCEPT !.in = in]
Sels(in, k) == [NoArgs EXCEPT !.in = in, !.keys = k]

Call(op, args, t) ==
    [op |-> op, args |-> args, val |-> t.val, has |-> t.has, ok |-> t.ok, out |-> t.out,
     den |-> t.den, err |-> t.err, calls |-> t.calls, panicked |-> t.panicked]

(* Arrays no queryable in hand refers to are reclaimed. *)
Collect(h, live) == [c \in Cells |-> IF c \in live THEN h[c] ELSE <<>>]

Built(op, args, array, qq) ==
    /\ heap = [c \in Cells |-> IF c = 1 THEN array ELSE <<>>]
    /\ q = qq
    /\ src = qq
    /\ last = Call(op, args, TermErr(qq.err))
    /\ depth = 0

Init ==
    \/ \E input \in Inputs : Built("From", Comp(input), input.vals, From(input))
    \/ \E start \in {1}, count \in (-1) .. MaxLen :
           Built("Range", Num(count), RangeArray(start, count), Range(start, count))

(* A stage-producing call on q returned outcome o: the caller now holds    *)
(* the input, q and the new queryable.                                     *)
Stage(op, args, o) ==
    /\ ~last.panicked
    /\ heap' = Collect(o.h, {1, q.values.arr, o.r.values.arr})
    /\ src' = q
    /\ q' = o.r
    /\ last' = Call(op, args, [Term EXCEPT !.err = o.r.err, !.calls = o.calls])
    /\ depth' = depth + 1

(* A terminal call on q returned t. *)
Terminal(op, args, t) ==
    /\ ~last.panicked
    /\ heap' = Collect(heap, {1, q.values.arr})
    /\ src' = q
    /\ q' = q
    /\ last' = Call(op, args, t)
    /\ depth' = depth + 1

CallWhere == \E f \in Preds : Stage("Where", Fn(f), Where(heap, q, f))
CallSelect == \E f \in Mappers : Stage("Select", Fn(f), Select(heap, q, f))
CallDistinct == \E o \in Distinct(heap, q) : Stage("Distinct", NoArgs, o)
CallDistinctBy == \E f \in Equivs : \E o \in DistinctBy(heap, q, f) : Stage("DistinctBy", Fn(f), o)
CallUnion == \E in \in Companions : \E o \in Union(heap, q, in) : Stage("Union", Comp(in), o)
CallIntersect == \E in \in Companions : \E o \in Intersect(heap, q, in) : Stage("Intersect", Comp(in), o)
CallExcept == \E in \in Companions : \E o \in Except(heap, q, in) : Stage("Except", Comp(in), o)
CallReverse == Stage("Reverse", NoArgs, Reverse(heap, q))
CallTake == \E n \in Counts : Stage("Take", Num(n), Take(heap, q, n))
CallSkip == \E n \in Counts : Stage("Skip", Num(n), Skip(heap, q, n))
CallTakeWhile == \E f \in Preds : Stage("TakeWhile", Fn(f), TakeWhile(heap, q, f))
CallSkipWhile == \E f \in Preds : Stage("SkipWhile", Fn(f), SkipWhile(heap, q, f))
CallOrderBy == \E f \in Lesses : Stage("OrderBy", Fn(f), OrderBy(heap, q, f))
CallOrderInts == Stage("OrderInts", NoArgs, OrderInts(heap, q))
CallOrderStrings == Stage("OrderStrings", NoArgs, OrderStrings(heap, q))
CallOrderFloat64s == Stage("OrderFloat64s", NoArgs, OrderFloat64s(heap, q))
CallJoin ==
    \E in \in Companions, k \in JoinSels :
        Stage("Join", Sels(in, k), Join(heap, q, in, k[1], k[2], k[3]))
CallGroupJoin ==
    \E in \in Companions, k \in JoinSels :
        \E o \in GroupJoin(heap, q, in, k[1], k[2], k[3]) : Stage("GroupJoin", Sels(in, k), o)

CallLen == Terminal("Len", NoArgs, Len_(heap, q))
(* Swap returns nothing; what it assigned stays in the array. *)
CallSwap ==
    \E i \in Positions, j \in Positions :
        LET o == Swap(heap, q, i, j) IN
        /\ ~last.panicked
        /\ heap' = Collect(o.h, {1, q.values.arr})
        /\ src' = q
        /\ q' = q
        /\ last' = Call("Swap", [Num(i) EXCEPT !.m = j], o.t)
        /\ depth' = depth + 1
CallLess ==
    \E i \in Positions, j \in Positions :
        Terminal("Less", [Num(i) EXCEPT !.m = j], Less(heap, q, i, j))
CallResults == Terminal("Results", NoArgs, Results(heap, q))
CallCount == Terminal("Count", NoArgs, Count(heap, q))
CallCountBy == \E f \in Preds : Terminal("CountBy", Fn(f), CountBy(heap, q, f))
CallAny == Terminal("Any", NoArgs, Any(heap, q))
CallAnyWith == \E f \in Preds : Terminal("AnyWith", Fn(f), AnyWith(heap, q, f))
CallAll == \E f \in Preds : Terminal("All", Fn(f), All(heap, q, f))
CallSingle == \E f \in Preds : Terminal("Single", Fn(f), Single(heap, q, f))
CallElementAt == \E i \in Indexes : Terminal("ElementAt", Num(i), ElementAt(heap, q, i))
CallElementAtOrNil == \E i \in Indexes : Terminal("ElementAtOrNil", Num(i), ElementAtOrNil(heap, q, i))
CallFirst == Terminal("First", NoArgs, First(heap, q))
CallFirstOrNil == Terminal("FirstOrNil", NoArgs, FirstOrNil(heap, q))
CallFirstBy == \E f \in Preds : Terminal("FirstBy", Fn(f), FirstBy(heap, q, f))
CallFirstOrNilBy == \E f \in Preds : Terminal("FirstOrNilBy", Fn(f), FirstOrNilBy(heap, q, f))
CallLast == Terminal("Last", NoArgs, Last(heap, q))
CallLastOrNil == Terminal("LastOrNil", NoArgs, LastOrNil(heap, q))
CallLastBy == \E f \in Preds : Terminal("LastBy", Fn(f), LastBy(heap, q, f))
CallLastOrNilBy == \E f \in Preds : Terminal("LastOrNilBy", Fn(f), LastOrNilBy(heap, q, f))
CallSum == Terminal("Sum", NoArgs, Sum(heap, q))
CallAverage == Terminal("Average", NoArgs, Average(heap, q))

(* One call: the caller builds a queryable and invokes one operation on it; *)
(* it may then read what the call left with Results.                       *)CallMinInt == Terminal("MinInt", NoArgs, MinInt(heap, q))
CallMinUint == Terminal("MinUint", NoArgs, MinUint(heap, q))
CallMinFloat64 == Terminal("MinFloat64", NoArgs, MinFloat64(heap, q))
CallMaxInt == Terminal("MaxInt", NoArgs, MaxInt(heap, q))
CallMaxUint == Terminal("MaxUint", NoArgs, MaxUint(heap, q))
CallMaxFloat64 == Terminal("MaxFloat64", NoArgs, MaxFloat64(heap, q))

(* Less is called on a fresh queryable or on the result of OrderBy, the   *)
(* one queryable whose less is set.                                        *)
Next ==
    \/ depth = 0 /\ CallLen
    \/ depth = 0 /\ CallSwap
    \/ (depth = 0 \/ (depth = 1 /\ last.op = "OrderBy")) /\ CallLess
    \/ depth = 0 /\ CallWhere
    \/ depth = 0 /\ CallSelect
    \/ depth = 0 /\ CallDistinct
    \/ depth = 0 /\ CallDistinctBy
    \/ depth = 0 /\ CallUnion
    \/ depth = 0 /\ CallIntersect
    \/ depth = 0 /\ CallExcept
    \/ depth = 0 /\ CallReverse
    \/ depth = 0 /\ CallTake
    \/ depth = 0 /\ CallSkip
    \/ depth = 0 /\ CallTakeWhile
    \/ depth = 0 /\ CallSkipWhile
    \/ depth = 0 /\ CallOrderBy
    \/ depth = 0 /\ CallOrderInts
    \/ depth = 0 /\ CallOrderStrings
    \/ depth = 0 /\ CallOrderFloat64s
    \/ depth = 0 /\ CallJoin
    \/ depth = 0 /\ CallGroupJoin
    \/ depth <= 1 /\ CallResults
    \/ depth = 0 /\ CallCount
    \/ depth = 0 /\ CallCountBy
    \/ depth = 0 /\ CallAny
    \/ depth = 0 /\ CallAnyWith
    \/ depth = 0 /\ CallAll
    \/ depth = 0 /\ CallSingle
    \/ depth = 0 /\ CallElementAt
    \/ depth = 0 /\ CallElementAtOrNil
    \/ depth = 0 /\ CallFirst
    \/ depth = 0 /\ CallFirstOrNil
    \/ depth = 0 /\ CallFirstBy
    \/ depth = 0 /\ CallFirstOrNilBy
    \/ depth = 0 /\ CallLast
    \/ depth = 0 /\ CallLastOrNil
    \/ depth = 0 /\ CallLastBy
    \/ depth = 0 /\ CallLastOrNilBy
    \/ depth = 0 /\ CallSum
    \/ depth = 0 /\ CallAverage
    \/ depth = 0 /\ CallMinInt
    \/ depth = 0 /\ CallMinUint
    \/ depth = 0 /\ CallMinFloat64
    \/ depth = 0 /\ CallMaxInt
    \/ depth = 0 /\ CallMaxUint
    \/ depth = 0 /\ CallMaxFloat64

Spec == Init /\ [][Next]_vars

(* Chains: the caller slices the queryable (Take, Skip, TakeWhile,           *)
(* SkipWhile: the result shares q's array) and invokes a stage-producing   *)
(* operation, or Swap, on the result.                                      *)
SliceOps == {"Take", "Skip", "TakeWhile", "SkipWhile"}
Sliced == depth = 0 \/ (depth = 1 /\ last.op \in SliceOps)

NextChain ==
    \/ Sliced /\ CallWhere
    \/ Sliced /\ CallSelect
    \/ Sliced /\ CallDistinct
    \/ Sliced /\ CallDistinctBy
    \/ Sliced /\ CallUnion
    \/ Sliced /\ CallIntersect
    \/ Sliced /\ CallExcept
    \/ Sliced /\ CallReverse
    \/ depth <= 1 /\ CallTake
    \/ depth <= 1 /\ CallSkip
    \/ depth <= 1 /\ CallTakeWhile
    \/ depth <= 1 /\ CallSkipWhile
    \/ Sliced /\ CallOrderBy
    \/ Sliced /\ CallOrderInts
    \/ Sliced /\ CallOrderStrings
    \/ Sliced /\ CallOrderFloat64s
    \/ Sliced /\ CallJoin
    \/ Sliced /\ CallGroupJoin
    \/ Sliced /\ CallSwap

SpecChain == Init /\ [][NextChain]_vars

----------------------------------------------------------------------------
(* What the claims are stated over. *)

S == Payload(heap, src.values)        \* the payload the last call read
R == Payload(heap, q.values)          \* the payload at the head of the chain
Arg == last.args
ValuesOf(s) == {s[k] : k \in DOMAIN s}
Min(a, b) == IF a < b THEN a ELSE b
Max(a, b) == IF a > b THEN a ELSE b
Called(op) == depth > 0 /\ last.op = op
Sound == src.err = NoErr              \* the call was made on a non-faulted pipeline

(* C1: an operation invoked on a pipeline that carries a fault e returns   *)
(* exactly e and invokes no caller-supplied callable, whatever its         *)
(* arguments (absent callable and absent companion included).  Len, Swap  *)
(* and Less return no fault and are not among these operations.           *)
C1_FaultPropagates ==
    (depth > 0 /\ src.err # NoErr /\ last.op \notin {"Len", "Swap", "Less"}) => (last.err = src.err /\ last.calls = NoCalls)

(* C2: a pipeline whose fault is set has an empty payload (the partial     *)
(* results of a Where or Select whose callable faulted are discarded), and *)
(* Results() on it returns an empty payload.                               *)
C2_FaultMeansEmptyPayload ==
    /\ q.err # NoErr => R = <<>>
    /\ (Called("Results") /\ last.err # NoErr) => last.out = <<>>

(* C3: with a non-nil companion B, Intersect yields the values in both A   *)
(* and B, Except those of A not in B, Union those in A or B; each value    *)
(* once, order ignored, and no fault.                                      *)
C3_SetAlgebra ==
    (Sound /\ depth = 1 /\ last.op \in {"Union", "Intersect", "Except"} /\ ~Arg.in.isnil) =>
        /\ q.err = NoErr
        /\ Len(R) = Cardinality(ValuesOf(R))
        /\ ValuesOf(R) = CASE last.op = "Union"     -> ValuesOf(S) \cup ValuesOf(Arg.in.vals)
                        [] last.op = "Intersect" -> ValuesOf(S) \cap ValuesOf(Arg.in.vals)
                        [] last.op = "Except"    -> ValuesOf(S) \ ValuesOf(Arg.in.vals)

C3_Witness ==
    /\ Sound /\ depth = 1 /\ last.op = "Intersect"
    /\ Len(S) > Cardinality(ValuesOf(S))
    /\ Len(Arg.in.vals) > Cardinality(ValuesOf(Arg.in.vals))
    /\ R # <<>>
    /\ ValuesOf(S) \ ValuesOf(R) # {}

(* The subsequence of s at the indices K, in source order. *)
RECURSIVE SubAt(_, _, _)
SubAt(s, K, k) ==
    IF k > Len(s) THEN <<>>
    ELSE (IF k \in K THEN <<s[k]>> ELSE <<>>) \o SubAt(s, K, k + 1)

Eq(a, b) == ApplyEquiv(Arg.fn, a, b).ok

(* C4: DistinctBy(eq) with a non-faulting eq keeps S[j] exactly when no    *)
(* earlier kept S[i] has eq(S[i], S[j]); the result is the kept elements   *)
(* in source order.  When eq is an equivalence, a kept element is the      *)
(* earliest of its class and no two kept elements are equivalent.          *)
C4_DistinctBy ==
    (Sound /\ Called("DistinctBy") /\ Arg.fn \in {"eq", "sameParity", "less"}) =>
        /\ q.err = NoErr
        /\ \E K \in SUBSET (1 .. Len(S)) :
              /\ \A j \in 1 .. Len(S) :
                    j \in K <=> ~ \E i \in K : i < j /\ Eq(S[i], S[j])
              /\ R = SubAt(S, K, 1)
              /\ Arg.fn \in {"eq", "sameParity"} =>
                    /\ \A j \in K : ~ \E i \in 1 .. (j - 1) : Eq(S[i], S[j])
                    /\ \A i \in K, j \in K : i # j => ~Eq(S[i], S[j])

C4_Witness ==
    /\ Sound /\ Called("DistinctBy") /\ Arg.fn = "sameParity"
    /\ Len(S) = 3 /\ Len(R) = 2
    /\ S[1] # S[3] /\ Eq(S[1], S[3])

(* The pairs of positions (a in O, b in I), outer-major. *)
PosPairs(m, n) == [k \in 1 .. (m * n) |-> <<((k - 1) \div n) + 1, ((k - 1) % n) + 1>>]
OuterKey(v) == ApplyKey(Arg.keys[1], v)
InnerKey(v) == ApplyKey(Arg.keys[2], v)
Inner == Arg.in.vals
Joined == Sound /\ ~Arg.in.isnil /\ Arg.keys \in {k \in JoinSels : "nil" \notin ValuesOf(k)}
Matching == SelectSeq(PosPairs(Len(S), Len(Inner)),
                      LAMBDA p : OuterKey(S[p[1]]) = InnerKey(Inner[p[2]]))

(* C5: Join returns resultSelector(o, i) for exactly the pairs of positions *)
(* with equal keys, outer-major, one result per pair; with no key in       *)
(* common the result is empty; no fault is set.                            *)
C5_Join ==
    (Joined /\ Called("Join")) =>
        /\ q.err = NoErr
        /\ R = [k \in 1 .. Len(Matching) |->
                   ApplyPair(Arg.keys[3], S[Matching[k][1]], Inner[Matching[k][2]])]
        /\ last.calls.result =
               [k \in 1 .. Len(Matching) |-> <<S[Matching[k][1]], Inner[Matching[k][2]]>>]
        /\ ({OuterKey(v) : v \in ValuesOf(S)} \cap {InnerKey(v) : v \in ValuesOf(Inner)} = {}) => R = <<>>

C5_Witness ==
    /\ Joined /\ Called("Join") /\ Arg.keys[1] = "parity"
    /\ Len(R) >= 3 /\ Len(R) < Len(S) * Len(Inner)
    /\ Cardinality(ValuesOf(Inner)) > 1

Groups == last.calls.result           \* the (outer, inners) resultSelector was given

(* C6: GroupJoin invokes resultSelector once per distinct outer value v,   *)
(* with the inner elements whose key equals v's key, in inner order, each  *)
(* inner position once; the result has one element per distinct value.     *)
C6_GroupJoin ==
    (Joined /\ Called("GroupJoin")) =>
        /\ q.err = NoErr
        /\ Len(Groups) = Cardinality(ValuesOf(S))
        /\ Len(R) = Cardinality(ValuesOf(S))
        /\ {g[1] : g \in ValuesOf(Groups)} = ValuesOf(S)
        /\ \A k \in 1 .. Len(Groups) :
              /\ Groups[k][2] = SelectSeq(Inner, LAMBDA i : InnerKey(i) = OuterKey(Groups[k][1]))
              /\ R[k] = ApplyGroup(Arg.keys[3], Groups[k][1], Groups[k][2])
        /\ ({OuterKey(v) : v \in ValuesOf(S)} \cap {InnerKey(v) : v \in ValuesOf(Inner)} = {}) =>
              \A g \in ValuesOf(Groups) : g[2] = <<>>

C6_Witness ==
    /\ Joined /\ Called("GroupJoin")
    /\ Len(S) > Cardinality(ValuesOf(S)) /\ Cardinality(ValuesOf(S)) > 1
    /\ \E k \in 1 .. Len(Groups) :
          /\ Len(Groups[k][2]) = 2
          /\ Cardinality({j \in 1 .. Len(S) : S[j] = Groups[k][1]}) > 1

(* C7: on a non-faulted pipeline Take(n) and Skip(n) never fault, for any  *)
(* n; Take(n) has min(max(n, 0), len(S)) elements; and the payload of      *)
(* Take(n) followed by the payload of Skip(n) is S.                        *)
C7_TakeSkipPartition ==
    /\ (Sound /\ Called("Take")) =>
          /\ q.err = NoErr
          /\ Len(R) = Min(Max(Arg.n, 0), Len(S))
          /\ Skip(heap, src, Arg.n).r.err = NoErr
          /\ R \o Payload(heap, Skip(heap, src, Arg.n).r.values) = S
    /\ (Sound /\ Called("Skip")) =>
          /\ q.err = NoErr
          /\ Take(heap, src, Arg.n).r.err = NoErr
          /\ Payload(heap, Take(heap, src, Arg.n).r.values) \o R = S

C7_Witness ==
    /\ Sound /\ Called("Take") /\ depth = 2 /\ Arg.n > Len(S)
    /\ src.values.off > 0 /\ Len(S) >= 2 /\ S[1] # S[2]

(* C8: ElementAt(i) on a non-faulted pipeline returns S[i] when            *)
(* 0 <= i < len(S), the negative-parameter fault when i < 0 and the        *)
(* no-element fault for every i >= len(S) up to the largest integer; it    *)
(* never aborts the process.                                               *)
C8_ElementAt ==
    (Sound /\ Called("ElementAt")) =>
        /\ ~last.panicked
        /\ (0 <= Arg.n /\ Arg.n < Len(S)) =>
              (last.err = NoErr /\ last.has /\ last.val = S[Arg.n + 1])
        /\ Arg.n < 0 => last.err = ErrNegativeParam
        /\ Arg.n >= Len(S) => last.err = ErrNoElement

(* C9: one Join or GroupJoin call invokes innerKeySelector at most once    *)
(* per distinct inner value: exactly once when the outer payload is not    *)
(* empty, never when it is; and outerKeySelector once per outer position.  *)
C9_KeyMemo ==
    (Joined /\ (Called("Join") \/ Called("GroupJoin"))) =>
        /\ Len(last.calls.inner) = Cardinality(ValuesOf(last.calls.inner))
        /\ S # <<>> => ValuesOf(last.calls.inner) = ValuesOf(Inner)
        /\ S = <<>> => last.calls.inner = <<>>
        /\ last.calls.outer = Len(S)

C9_Witness ==
    /\ Joined /\ Called("Join")
    /\ Len(S) >= 2
    /\ Len(Inner) > Cardinality(ValuesOf(Inner))
    /\ Len(last.calls.inner) = 1

(* C10: no operation modifies a payload it reads: a call leaves the array  *)
(* of the caller's input and the array of the queryable it was invoked on  *)
(* (which a Take or Skip result shares with its source) as they were.      *)
C10_NoWrite ==
    [][/\ heap'[1] = heap[1]
       /\ q.values.arr # 0 => heap'[q.values.arr] = heap[q.values.arr]]_vars

====
